---- MODULE Spec2Model ----
(***************************************************************************)
(* A state-machine model of the Log4C logger (include/logger.h).           *)
(*                                                                         *)
(* The state is one struct Logger, the part of the C library it touches    *)
(* (the stdio streams it opened, the files behind them, the heap blocks of *)
(* its three owned strings) and what the last call printed on stdout and   *)
(* stderr.  Every function of logger.h is one action.                      *)
(*                                                                         *)
(* Abstractions, all stated where they are made:                           *)
(*   - a file's content is the sequence of lines written to it and its     *)
(*     size (ftell) is counted in lines;                                   *)
(*   - the wall clock, the thread id and the process id are not modelled:  *)
(*     a line records the format its timestamp was rendered with and       *)
(*     whether the two ids were printed;                                   *)
(*   - stdout and stderr hold what the most recent call printed, and call  *)
(*     names the function that call entered;                               *)
(*   - a message is its format followed by its arguments;                  *)
(*   - undefined behaviour is recorded in fault when it is executed, and   *)
(*     its outcomes are a nondeterministic choice.                         *)
(***************************************************************************)
EXTENDS Integers, Sequences, FiniteSets, TLC

VARIABLES
    phase,               \* "uninit" | "live" | "closed" | "aborted"
    console_level,       \* struct Logger
    file_level,
    file,
    file_path,
    date_format,
    prefix,
    log_to_file,
    include_thread_id,
    include_process_id,
    tags,
    num_tags,
    heap,                \* state of the block each owned string points to
    handles,             \* the stdio streams of the process
    fs,                  \* the files on disk: path -> sequence of lines
    stdout,              \* what the last call printed on stdout
    stderr,              \* what the last call printed on stderr
    fault,               \* undefined behaviour executed so far
    added,               \* history: the arguments of the add_tag calls
    call                 \* history: the function of logger.h called last

vars == <<phase, console_level, file_level, file, file_path, date_format,
          prefix, log_to_file, include_thread_id, include_process_id, tags,
          num_tags, heap, handles, fs, stdout, stderr, fault, added,
          call>>

\* the fields of struct Logger
config == <<console_level, file_level, file, file_path, date_format, prefix,
            log_to_file, include_thread_id, include_process_id, tags,
            num_tags>>

----------------------------------------------------------------------------
\* Program constants

MAX_TAGS == 10
MAX_TAG_LENGTH == 20

DEBUG == 0
INFO == 1
SUCCESS == 2
WARNING == 3
ERROR == 4

LogLevel == DEBUG..ERROR

NULL == 0

DEFAULT_DATE_FORMAT == "%Y-%m-%d %H:%M:%S"

----------------------------------------------------------------------------
\* Bounds of the model

MaxHandles == 2      \* stream identities available to fopen
MaxFileLines == 2    \* lines a log file may hold before logging to it stops
MaxGateLines == 2    \* the same, in the threshold specification
MaxAdds == 11        \* add_tag calls in the tag specification
MaxCfgAdds == 1      \* add_tag calls in the configuration specification

Handles == 1..MaxHandles

----------------------------------------------------------------------------
\* Inputs

Min(S) == CHOOSE x \in S : \A y \in S : x <= y

Paths == {<<"a">>, <<"b">>}
NullStr == "NULL"
DateFormats == {"%Y-%m-%d"}
Prefixes == {"", "[APP]"}
Messages == {<<"x">>}
Flags == {0, 1}

Chars(c, n) == [i \in 1..n |-> c]

TagInputs == {<<"S", "t", "a", "r", "t">>,
              Chars("b", MAX_TAG_LENGTH - 1),
              Chars("c", MAX_TAG_LENGTH)}

----------------------------------------------------------------------------
\* The C library, as far as logger.h uses it.  A world is the part of the
\* process state the library calls change.

World == [handles |-> handles, fs |-> fs, heap |-> heap, fault |-> fault]

ClosedStream == [open |-> FALSE, path |-> <<>>, buf |-> <<>>]

\* free(p): releasing a block that is not live is undefined behaviour
free(w, field) ==
    IF w.heap[field] = "live"
    THEN [w EXCEPT !.heap[field] = "freed"]
    ELSE [w EXCEPT !.fault = @ \cup {"double_free"}]

\* strdup(s) stored in a field: the field points to a fresh live block
strdup(w, field) == [w EXCEPT !.heap[field] = "live"]

\* fprintf and vfprintf on a stream: the text goes to the stream's buffer
fprintf(w, h, line) ==
    IF h = NULL THEN [w EXCEPT !.fault = @ \cup {"null_stream"}]
    ELSE IF w.handles[h].open
    THEN [w EXCEPT !.handles[h].buf = Append(@, line)]
    ELSE [w EXCEPT !.fault = @ \cup {"use_after_fclose"}]

\* fflush: the buffer reaches the file the stream is bound to (a stream
\* whose file was unlinked has the empty path and its data is dropped)
fflush(w, h) ==
    IF h = NULL \/ ~w.handles[h].open THEN w ELSE
    LET s == w.handles[h] IN
    [w EXCEPT !.fs = IF s.path \in DOMAIN w.fs
                     THEN [w.fs EXCEPT ![s.path] = w.fs[s.path] \o s.buf]
                     ELSE w.fs,
              !.handles[h].buf = <<>>]

\* fclose flushes and releases the stream; on a stream that is not open it
\* is undefined behaviour
fclose(w, h) ==
    IF w.handles[h].open
    THEN [fflush(w, h) EXCEPT !.handles[h] = ClosedStream]
    ELSE [w EXCEPT !.fault = @ \cup {"double_fclose"}]

\* What fopen may return: NULL (the open fails), or a stream that is not
\* open and is not the one `held` still names
FreshStream(w, held) ==
    LET unused == {h \in Handles : ~w.handles[h].open /\ h # held} IN
    IF unused = {} THEN {} ELSE {Min(unused)}

\* the result of fopen(path, "a") when the environment lets it succeed (ok)
fopen(w, held, ok) ==
    IF ok /\ FreshStream(w, held) # {} THEN Min(FreshStream(w, held)) ELSE NULL

\* the world after fopen(path, "a") returned h: the file exists, h is open
opened(w, path, h) ==
    IF h = NULL THEN w
    ELSE [w EXCEPT !.fs = IF path \in DOMAIN w.fs THEN w.fs
                          ELSE w.fs @@ (path :> <<>>),
                   !.handles[h] = [open |-> TRUE, path |-> path, buf |-> <<>>]]

\* rename(old, new): new is replaced; open streams follow their file
rename(w, old, new, ok) ==
    IF ok /\ old \in DOMAIN w.fs
    THEN [w EXCEPT
            !.fs = [q \in (DOMAIN w.fs \ {old}) \cup {new} |->
                      IF q = new THEN w.fs[old] ELSE w.fs[q]],
            !.handles = [h \in Handles |->
                      IF ~w.handles[h].open THEN w.handles[h]
                      ELSE IF w.handles[h].path = old
                           THEN [w.handles[h] EXCEPT !.path = new]
                      ELSE IF w.handles[h].path = new
                           THEN [w.handles[h] EXCEPT !.path = <<>>]
                      ELSE w.handles[h]]]
    ELSE w

\* ftell after fseek(SEEK_END): the size of the stream's file, in lines
ftell(w, h) ==
    IF h # NULL /\ w.handles[h].path \in DOMAIN w.fs
    THEN Len(w.fs[w.handles[h].path])
    ELSE 0

\* snprintf(buf, n, "%s.old", path): at most n - 1 characters are kept
snprintf(n, path) ==
    LET s == path \o <<".", "o", "l", "d">> IN
    SubSeq(s, 1, IF Len(s) < n - 1 THEN Len(s) ELSE n - 1)

\* strncpy(dst, src, n) followed by dst[n] = '\0': the C string left in dst
strncpy(src, n) == SubSeq(src, 1, IF Len(src) < n THEN Len(src) ELSE n)

\* strftime(timeBuffer, ..., fmt, now): the clock is not modelled
strftime(fmt) == <<"time", fmt>>

OpenError(path) == <<<<"Error opening log file", path>>>>

SetWorld(w) ==
    /\ handles' = w.handles
    /\ fs' = w.fs
    /\ heap' = w.heap
    /\ fault' = w.fault

----------------------------------------------------------------------------
\* logger.h

Init ==
    /\ phase = "uninit"
    /\ console_level = DEBUG
    /\ file_level = DEBUG
    /\ file = NULL
    /\ file_path = <<>>
    /\ date_format = ""
    /\ prefix = ""
    /\ log_to_file = 0
    /\ include_thread_id = 0
    /\ include_process_id = 0
    /\ tags = [i \in 0..(MAX_TAGS - 1) |-> <<>>]
    /\ num_tags = 0
    /\ heap = [f \in {"file_path", "date_format", "prefix"} |-> "unalloc"]
    /\ handles = [h \in Handles |-> ClosedStream]
    /\ fs = <<>>
    /\ stdout = <<>>
    /\ stderr = <<>>
    /\ fault = {}
    /\ added = <<>>
    /\ call = "none"

init_logger(c_level, f_level, path, fmt, to_file, thread_id, process_id, open_ok) ==
    /\ call' = "init_logger"
    /\ phase = "uninit"
    /\ phase' = "live"
    /\ console_level' = c_level
    /\ file_level' = f_level
    /\ file_path' = path
    /\ date_format' = IF fmt # NullStr THEN fmt ELSE DEFAULT_DATE_FORMAT
    /\ prefix' = ""
    /\ log_to_file' = to_file
    /\ include_thread_id' = thread_id
    /\ include_process_id' = process_id
    /\ num_tags' = 0
    /\ LET w0 == strdup(strdup(strdup(World, "file_path"), "date_format"), "prefix")
           h == IF to_file # 0 THEN fopen(w0, NULL, open_ok) ELSE NULL
       IN /\ file' = h
          /\ SetWorld(opened(w0, path, h))
          /\ stderr' = IF to_file # 0 /\ h = NULL THEN OpenError(path) ELSE <<>>
    /\ stdout' = <<>>
    /\ UNCHANGED <<tags, added>>

set_log_prefix(p) ==
    /\ call' = "set_log_prefix"
    /\ phase = "live"
    /\ prefix' = p
    /\ SetWorld(strdup(free(World, "prefix"), "prefix"))
    /\ stdout' = <<>>
    /\ stderr' = <<>>
    /\ UNCHANGED <<phase, console_level, file_level, file, file_path,
                   date_format, log_to_file, include_thread_id,
                   include_process_id, tags, num_tags, added>>

\* (mutant) the old stream is never closed
ReleaseStream_Leak(w) == w

\* if (logger->file) fclose(logger->file);
ReleaseStream(w) == IF file # NULL THEN fclose(w, file) ELSE w

set_log_file(path, open_ok) ==
    /\ call' = "set_log_file"
    /\ phase = "live"
    /\ file_path' = path
    /\ LET w0 == strdup(free(World, "file_path"), "file_path")
           w1 == ReleaseStream(w0)
           h == fopen(w1, file, open_ok)
       IN /\ file' = h
          /\ SetWorld(opened(w1, path, h))
          /\ stderr' = IF h = NULL THEN OpenError(path) ELSE <<>>
    /\ stdout' = <<>>
    /\ UNCHANGED <<phase, console_level, file_level, date_format, prefix,
                   log_to_file, include_thread_id, include_process_id, tags,
                   num_tags, added>>

set_log_levels(c_level, f_level) ==
    /\ call' = "set_log_levels"
    /\ phase = "live"
    /\ console_level' = c_level
    /\ file_level' = f_level
    /\ stdout' = <<>>
    /\ stderr' = <<>>
    /\ UNCHANGED <<phase, file, file_path, date_format, prefix, log_to_file,
                   include_thread_id, include_process_id, tags, num_tags,
                   heap, handles, fs, fault, added>>

set_date_format(fmt) ==
    /\ call' = "set_date_format"
    /\ phase = "live"
    /\ date_format' = fmt
    /\ SetWorld(strdup(free(World, "date_format"), "date_format"))
    /\ stdout' = <<>>
    /\ stderr' = <<>>
    /\ UNCHANGED <<phase, console_level, file_level, file, file_path, prefix,
                   log_to_file, include_thread_id, include_process_id, tags,
                   num_tags, added>>

\* (mutant) disabling file logging also closes the file
set_log_to_file_Closing(flag) ==
    /\ call' = "set_log_to_file"
    /\ phase = "live"
    /\ log_to_file' = flag
    /\ IF flag = 0 /\ file # NULL
       THEN /\ SetWorld(fclose(World, file))
            /\ file' = NULL
       ELSE UNCHANGED <<file, handles, fs, heap, fault>>
    /\ stdout' = <<>>
    /\ stderr' = <<>>
    /\ UNCHANGED <<phase, console_level, file_level, file_path,
                   date_format, prefix, include_thread_id,
                   include_process_id, tags, num_tags, added>>

set_log_to_file(flag) ==
    /\ call' = "set_log_to_file"
    /\ phase = "live"
    /\ log_to_file' = flag
    /\ stdout' = <<>>
    /\ stderr' = <<>>
    /\ UNCHANGED <<phase, console_level, file_level, file, file_path,
                   date_format, prefix, include_thread_id,
                   include_process_id, tags, num_tags, heap, handles, fs,
                   fault, added>>

set_include_thread_id(flag) ==
    /\ call' = "set_include_thread_id"
    /\ phase = "live"
    /\ include_thread_id' = flag
    /\ stdout' = <<>>
    /\ stderr' = <<>>
    /\ UNCHANGED <<phase, console_level, file_level, file, file_path,
                   date_format, prefix, log_to_file, include_process_id,
                   tags, num_tags, heap, handles, fs, fault, added>>

set_include_process_id(flag) ==
    /\ call' = "set_include_process_id"
    /\ phase = "live"
    /\ include_process_id' = flag
    /\ stdout' = <<>>
    /\ stderr' = <<>>
    /\ UNCHANGED <<phase, console_level, file_level, file, file_path,
                   date_format, prefix, log_to_file, include_thread_id,
                   tags, num_tags, heap, handles, fs, fault, added>>

\* the switch of log_message
LevelName(level) ==
    CASE level = DEBUG -> "DEBUG"
      [] level = INFO -> "INFO"
      [] level = SUCCESS -> "SUCCESS"
      [] level = WARNING -> "WARNING"
      [] level = ERROR -> "ERROR"
      [] OTHER -> "UNKNOWN"

\* the line log_message prints, on the console and in the file alike
Line(level, msg) ==
    [time |-> strftime(date_format),
     level_name |-> LevelName(level),
     prefix |-> prefix,
     thread_id |-> include_thread_id # 0,
     process_id |-> include_process_id # 0,
     msg |-> msg]

\* (mutant) the message is dropped when it is below either threshold
BelowBoth_Either(level) == level < console_level \/ level < file_level

\* the early return of log_message
BelowBoth(level) == level < console_level /\ level < file_level

\* (mutant) the stream is not tested
ToFile_NoNullCheck(level) == log_to_file # 0 /\ level >= file_level

\* (mutant) the flag is not tested
ToFile_IgnoreFlag(level) == file # NULL /\ level >= file_level

\* the condition of the file branch of log_message
ToFile(level) == log_to_file # 0 /\ file # NULL /\ level >= file_level

\* (mutant) the line is left in the stream's buffer
FileSink_NoFlush(w, line) == fprintf(w, file, line)

\* the file branch of log_message: the line is printed and flushed
FileSink(w, line) == fflush(fprintf(w, file, line), file)

\* What vfprintf reads from the va_list vprintf has already walked (there is
\* no va_copy between the two calls).  Without conversions nothing is read.
\* With conversions the read is undefined behaviour: the arguments appear
\* as they were given or as something else.
Reused(msg) ==
    IF Len(msg) > 1 THEN {msg, <<msg[1], "indeterminate">>} ELSE {msg}

\* the undefined behaviour the file branch executes for this message
Reuse(w, msg) ==
    IF Len(msg) > 1 THEN [w EXCEPT !.fault = @ \cup {"va_list_reuse"}] ELSE w

\* msg is the format followed by its arguments.  When the file branch reads
\* the walked va_list the call may also end the process inside vfprintf;
\* what was buffered then, on stdout or in the stream, may be lost.
log_message(level, msg) ==
    /\ call' = "log_message"
    /\ phase = "live"
    /\ stderr' = <<>>
    /\ IF BelowBoth(level)
       THEN /\ stdout' = <<>>
            /\ UNCHANGED <<phase, handles, fs, heap, fault>>
       ELSE IF ToFile(level)
            THEN \/ \E read \in Reused(msg) :
                      /\ stdout' = <<Line(level, msg)>>
                      /\ SetWorld(FileSink(Reuse(World, msg), Line(level, read)))
                      /\ UNCHANGED phase
                 \/ /\ Len(msg) > 1
                    /\ phase' = "aborted"
                    /\ stdout' \in {<<>>, <<Line(level, msg)>>}
                    /\ fault' = Reuse(World, msg).fault
                    /\ UNCHANGED <<handles, fs, heap>>
            ELSE /\ stdout' = <<Line(level, msg)>>
                 /\ UNCHANGED <<phase, handles, fs, heap, fault>>
    /\ UNCHANGED <<config, added>>

\* (mutant) one tag too many is accepted
TagRoom_OffByOne == num_tags <= MAX_TAGS

\* the test of add_tag
TagRoom == num_tags < MAX_TAGS

add_tag(tag) ==
    /\ call' = "add_tag"
    /\ phase = "live"
    /\ IF TagRoom
       THEN /\ tags' = [tags EXCEPT ![num_tags] = strncpy(tag, MAX_TAG_LENGTH - 1)]
            /\ num_tags' = num_tags + 1
       ELSE UNCHANGED <<tags, num_tags>>
    /\ added' = Append(added, tag)
    /\ stdout' = <<>>
    /\ stderr' = <<>>
    /\ UNCHANGED <<phase, console_level, file_level, file, file_path,
                   date_format, prefix, log_to_file, include_thread_id,
                   include_process_id, heap, handles, fs, fault>>

\* the format and the arguments log_timestamp passes on (the clock reading
\* is not modelled)
Timestamp(tag) == <<"[%s] Timestamp: %lld ms", tag>>

log_timestamp(tag) == log_message(DEBUG, Timestamp(tag))

\* (mutant) a file of exactly max_size is not rotated
RotateDue_Strict(file_size, max_size) == file_size > max_size

\* the size test of rotate_log
RotateDue(file_size, max_size) == file_size >= max_size

rotate_log(max_size, rename_ok, open_ok) ==
    /\ call' = "rotate_log"
    /\ phase = "live"
    /\ stdout' = <<>>
    /\ IF file # NULL
       THEN LET w0 == fflush(World, file)
                file_size == ftell(w0, file)
            IN IF RotateDue(file_size, max_size)
               THEN LET w1 == fclose(w0, file)
                        new_file_path == snprintf(Len(file_path) + 5, file_path)
                        w2 == rename(w1, file_path, new_file_path, rename_ok)
                        h == fopen(w2, file, open_ok)
                    IN /\ file' = h
                       /\ SetWorld(opened(w2, file_path, h))
                       /\ stderr' = IF h = NULL THEN OpenError(file_path)
                                    ELSE <<>>
               ELSE /\ SetWorld(w0)
                    /\ stderr' = <<>>
                    /\ UNCHANGED file
       ELSE /\ stderr' = <<>>
            /\ UNCHANGED <<file, handles, fs, heap, fault>>
    /\ UNCHANGED <<phase, console_level, file_level, file_path, date_format,
                   prefix, log_to_file, include_thread_id,
                   include_process_id, tags, num_tags, added>>

\* The pointers are not reset: a second call closes and frees them again,
\* which is undefined behaviour; the process is aborted or carries on.
close_logger ==
    /\ call' = "close_logger"
    /\ phase \in {"live", "closed"}
    /\ LET w0 == [World EXCEPT !.fault = {}]
           w1 == IF file # NULL THEN fclose(w0, file) ELSE w0
           w2 == free(free(free(w1, "file_path"), "date_format"), "prefix")
       IN /\ SetWorld([w2 EXCEPT !.fault = fault \cup w2.fault])
          /\ phase' \in (IF w2.fault = {} THEN {"closed"}
                         ELSE {"closed", "aborted"})
    /\ stdout' = <<>>
    /\ stderr' = <<>>
    /\ UNCHANGED <<config, added>>

----------------------------------------------------------------------------
\* The callers.  Each specification drives logger.h with its own small sets
\* of arguments; the bounds of the model are guards of the callers, never of
\* the functions.

\* logging stops when the log file holds MaxFileLines lines
Room(level) == ToFile(level) => ftell(World, file) < MaxFileLines

\* the thresholds of the example programs and of the scenario of the
\* documentation
ExampleLevels == {<<DEBUG, INFO>>, <<INFO, WARNING>>}
FileLevels == {DEBUG, WARNING}
RotateSizes == 0..MaxFileLines

\* Files and lifecycle: one logger, its file sink, rotation and shutdown.
FInit ==
    \E lv \in ExampleLevels, path \in Paths, to_file \in Flags, ok \in BOOLEAN :
        init_logger(lv[1], lv[2], path, NullStr, to_file, 1, 1, ok)

FSetFile == \E path \in Paths, ok \in BOOLEAN : set_log_file(path, ok)

FSetToFile == \E flag \in Flags : set_log_to_file(flag)

FSetLevels == \E lv \in ExampleLevels : set_log_levels(lv[1], lv[2])

FLog ==
    \E level \in FileLevels, msg \in Messages :
        Room(level) /\ log_message(level, msg)

FRotate ==
    \E max_size \in RotateSizes, rename_ok \in BOOLEAN, open_ok \in BOOLEAN :
        rotate_log(max_size, rename_ok, open_ok)

FClose == close_logger

Next == FInit \/ FSetFile \/ FSetToFile \/ FSetLevels \/ FLog \/ FRotate \/ FClose

Spec == Init /\ [][Next]_vars

\* Thresholds: every level against every pair of thresholds.
GateRoom(level) == ToFile(level) => ftell(World, file) < MaxGateLines

GInit ==
    \E c \in LogLevel, f \in LogLevel, to_file \in Flags, ok \in BOOLEAN :
        init_logger(c, f, <<"a">>, NullStr, to_file, 1, 1, ok)

GSetLevels == \E c \in LogLevel, f \in LogLevel : set_log_levels(c, f)

GSetToFile == \E flag \in Flags : set_log_to_file(flag)

GLog ==
    \E level \in LogLevel, msg \in Messages :
        GateRoom(level) /\ log_message(level, msg)

GTimestamp == GateRoom(DEBUG) /\ log_timestamp("Start")

NextGate == GInit \/ GSetLevels \/ GSetToFile \/ GLog \/ GTimestamp

SpecGate == Init /\ [][NextGate]_vars

\* Tags: add_tag called up to MaxAdds times.
TInit == init_logger(DEBUG, INFO, <<"a">>, NullStr, 1, 1, 1, TRUE)

TAdd == \E tag \in TagInputs : Len(added) < MaxAdds /\ add_tag(tag)

NextTags == TInit \/ TAdd

SpecTags == Init /\ [][NextTags]_vars

\* Configuration: every function of logger.h, with thresholds under which
\* no message is eligible for the file.
CfgLevels == {<<DEBUG, ERROR>>, <<INFO, ERROR>>}

CInit ==
    \E to_file \in Flags, ok \in BOOLEAN :
        init_logger(DEBUG, ERROR, <<"a">>, NullStr, to_file, 1, 1, ok)

CSetPrefix == \E p \in Prefixes : set_log_prefix(p)

CSetFile == \E ok \in BOOLEAN : set_log_file(<<"b">>, ok)

CSetLevels == \E lv \in CfgLevels : set_log_levels(lv[1], lv[2])

CSetDateFormat ==
    \E fmt \in DateFormats \cup {DEFAULT_DATE_FORMAT} : set_date_format(fmt)

CSetToFile == \E flag \in Flags : set_log_to_file(flag)

CSetThreadId == \E flag \in Flags : set_include_thread_id(flag)

CSetProcessId == \E flag \in Flags : set_include_process_id(flag)

CLog == \E msg \in Messages : log_message(WARNING, msg)

CAddTag == Len(added) < MaxCfgAdds /\ add_tag(<<"S", "t", "a", "r", "t">>)

CTimestamp == log_timestamp("Start")

CRotate ==
    \E rename_ok \in BOOLEAN, open_ok \in BOOLEAN :
        rotate_log(0, rename_ok, open_ok)

CClose == close_logger

NextConfig ==
    \/ CInit \/ CSetPrefix \/ CSetFile \/ CSetLevels \/ CSetDateFormat
    \/ CSetToFile \/ CSetThreadId \/ CSetProcessId \/ CLog \/ CAddTag
    \/ CTimestamp \/ CRotate \/ CClose

SpecConfig == Init /\ [][NextConfig]_vars

----------------------------------------------------------------------------
\* Properties

OldPath(path) == path \o <<".", "o", "l", "d">>

OpenStreams == {h \in Handles : handles[h].open}

Content(path) == IF path \in DOMAIN fs THEN fs[path] ELSE <<>>

\* C1: log_message(L) prints the message on the console iff
\* L >= console_level or L >= file_level, and appends the same line to the
\* file iff log_to_file is set, there is a stream and L >= file_level; below
\* both thresholds it changes nothing.
C1_Gate ==
    [][\A level \in LogLevel, msg \in Messages \cup {Timestamp("Start")} :
        log_message(level, msg)
        => /\ (stdout' # <<>>) <=> (level >= console_level \/ level >= file_level)
           /\ stdout' # <<>> => stdout' = <<Line(level, msg)>>
           /\ (fs' # fs)
                <=> (log_to_file # 0 /\ file # NULL /\ level >= file_level)
           /\ fs' # fs
                => fs' = [fs EXCEPT ![file_path] = Append(@, Line(level, msg))]
           /\ (level < console_level /\ level < file_level)
                => UNCHANGED <<phase, config, handles, fs, heap, fault>>
      ]_vars

\* C2: close_logger is idempotent: no sequence of calls ending in two
\* close_logger calls closes a stream twice or frees an owned string twice.
C2_CloseIdempotent ==
    /\ "double_fclose" \notin fault
    /\ "double_free" \notin fault

C4_RotationFailure ==
    [][\A max_size \in RotateSizes, rename_ok \in BOOLEAN, open_ok \in BOOLEAN :
        (/\ file # NULL
         /\ Len(Content(file_path)) >= max_size
         /\ ~(rename_ok /\ open_ok)
         /\ rotate_log(max_size, rename_ok, open_ok))
        => /\ stderr' # <<>>
           /\ file' = NULL
           /\ OpenStreams' = {}
      ]_vars

C6_SetLogFile ==
    [][/\ phase' = "live"
          => /\ Cardinality(OpenStreams') <= 1
             /\ file' # NULL => (handles'[file'].open /\ handles'[file'].path = file_path')
             /\ file' = NULL => OpenStreams' = {}
       /\ \A path \in Paths, open_ok \in BOOLEAN :
            set_log_file(path, open_ok)
            => /\ file_path' = path
               /\ fault' = fault
               /\ file # NULL => (handles[file].open /\ ~handles'[file].open /\ file' # file)
       /\ call' = "log_message"
            => /\ DOMAIN fs' = DOMAIN fs
               /\ \A q \in DOMAIN fs : q # file_path => fs'[q] = fs[q]
      ]_vars

\* the path was changed from a to b and a line was then written to b
C6_Witness ==
    /\ call = "log_message"
    /\ file_path = <<"b">>
    /\ <<"a">> \in DOMAIN fs
    /\ file # NULL
    /\ handles[file].path = <<"b">>
    /\ Content(<<"b">>) # <<>>
    /\ stdout # <<>>

\* C8: every file line is on disk when log_message returns: no stream holds
\* buffered data between calls, the line is appended to the file itself,
\* and the size rotate_log reads is the size of the file on disk.
C8_Flushed ==
    [][/\ \A h \in Handles : handles'[h].buf = <<>>
       /\ (phase' = "live" /\ file' # NULL)
            => ftell(World', file') = Len(Content(file_path)')
       /\ (call' = "log_message" /\ phase' = "live" /\ stdout' # <<>>
             /\ log_to_file # 0 /\ file # NULL
             /\ \E level \in LogLevel :
                   /\ stdout'[1].level_name = LevelName(level)
                   /\ level >= file_level)
            => /\ Len(fs'[file_path]) = Len(fs[file_path]) + 1
               /\ SubSeq(fs'[file_path], 1, Len(fs[file_path])) = fs[file_path]
      ]_vars

\* two lines were logged to the file, the second by the last call
C8_Witness ==
    /\ call = "log_message"
    /\ file # NULL
    /\ Len(Content(file_path)) >= 2
    /\ stdout # <<>>
    /\ fs[file_path][Len(fs[file_path])] = stdout[1]

\* the first at most 19 characters of a tag
Truncated(tag) ==
    [i \in 1..(IF Len(tag) <= MAX_TAG_LENGTH - 1 THEN Len(tag)
               ELSE MAX_TAG_LENGTH - 1) |-> tag[i]]

\* C7: after any add_tag calls, 0 <= num_tags <= 10 and the stored tags are
\* the first min(n, 10) tags added, in order, each cut to 19 characters; a
\* call made when 10 tags are stored changes nothing and reports nothing.
C7_Tags ==
    [][/\ phase' = "live"
          => /\ 0 <= num_tags' /\ num_tags' <= MAX_TAGS
             /\ num_tags' = (IF Len(added') < MAX_TAGS THEN Len(added')
                             ELSE MAX_TAGS)
             /\ \A i \in 1..num_tags' : tags'[i - 1] = Truncated(added'[i])
       /\ \A tag \in TagInputs :
            (num_tags = MAX_TAGS /\ add_tag(tag))
            => /\ UNCHANGED <<tags, num_tags>>
               /\ stderr' = <<>>
               /\ fault' = fault
               /\ phase' = "live"
      ]_vars

\* an eleventh tag was offered and dropped, and a stored tag was cut
C7_Witness ==
    /\ call = "add_tag"
    /\ num_tags = MAX_TAGS
    /\ Len(added) > MAX_TAGS
    /\ \E i \in 1..num_tags :
         /\ Len(added[i]) = MAX_TAG_LENGTH
         /\ Len(tags[i - 1]) = MAX_TAG_LENGTH - 1

\* C9 as stated: while the logger is in use, the stream is NULL whenever
\* log_to_file is 0.
C9_NullWhenDisabled == (phase = "live" /\ log_to_file = 0) => file = NULL

\* C9 as amended: init_logger with log_to_file = 0 leaves the stream NULL
\* and only set_log_file turns a NULL stream into an open one;
\* set_log_to_file leaves the stream as it is, and while log_to_file is 0
\* log_message writes nothing to it.
C9_DisabledSink ==
    [][/\ (call' = "init_logger" /\ log_to_file' = 0)
            => (file' = NULL /\ OpenStreams' = {})
       /\ (phase = "live" /\ file = NULL /\ file' # NULL)
            => call' = "set_log_file"
       /\ call' = "set_log_to_file"
            => (file' = file /\ handles' = handles /\ fs' = fs)
       /\ (call' = "log_message" /\ log_to_file = 0)
            => (file' = file /\ handles' = handles /\ fs' = fs)
      ]_vars

\* file logging is off, the stream is still open, and a message at or above
\* the file threshold was printed on the console only
C9_Witness ==
    /\ call = "log_message"
    /\ log_to_file = 0
    /\ file # NULL
    /\ handles[file].open
    /\ Len(stdout) = 1
    /\ \E level \in LogLevel :
         stdout[1].level_name = LevelName(level) /\ level >= file_level
    /\ Content(file_path) = <<>>

StreamStatus == [h \in Handles |-> handles[h].open]

\* each setter changes its own field only; log_message changes no field
SettersFrame ==
    /\ call' = "set_log_prefix"
         => UNCHANGED <<console_level, file_level, file, file_path,
                        date_format, log_to_file, include_thread_id,
                        include_process_id, tags, num_tags, handles, fs>>
    /\ call' = "set_log_levels"
         => UNCHANGED <<file, file_path, date_format, prefix, log_to_file,
                        include_thread_id, include_process_id, tags,
                        num_tags, handles, fs>>
    /\ call' = "set_date_format"
         => UNCHANGED <<console_level, file_level, file, file_path, prefix,
                        log_to_file, include_thread_id, include_process_id,
                        tags, num_tags, handles, fs>>
    /\ call' = "set_log_to_file"
         => UNCHANGED <<console_level, file_level, file, file_path,
                        date_format, prefix, include_thread_id,
                        include_process_id, tags, num_tags, handles, fs>>
    /\ call' = "set_include_thread_id"
         => UNCHANGED <<console_level, file_level, file, file_path,
                        date_format, prefix, log_to_file,
                        include_process_id, tags, num_tags, handles, fs>>
    /\ call' = "set_include_process_id"
         => UNCHANGED <<console_level, file_level, file, file_path,
                        date_format, prefix, log_to_file,
                        include_thread_id, tags, num_tags, handles, fs>>
    /\ call' = "add_tag"
         => UNCHANGED <<console_level, file_level, file, file_path,
                        date_format, prefix, log_to_file,
                        include_thread_id, include_process_id, handles, fs>>
    /\ call' = "log_message" => UNCHANGED config

StreamChanged == file' # file \/ StreamStatus' # StreamStatus

====
